---- MODULE Spec2Model ----
(***************************************************************************)
(* druid-shell clipboard: the platform-agnostic value model                *)
(* (ClipboardItem / ClipboardFormat, clipboard.rs) and the two platform    *)
(* adapters (windows/clipboard.rs, mac/clipboard.rs + mac/application.rs). *)
(*                                                                         *)
(* Every adapter operation is one action.  It records the native calls it  *)
(* issued, in order, in `calls`, its result in `ret`, and leaves the       *)
(* system clipboard in `cb`.  The operating system's answers that the code *)
(* branches on (OpenClipboard failing, RegisterClipboardFormatA returning  *)
(* 0, SetClipboardData returning NULL, GetClipboardData returning NULL)    *)
(* are inputs of the actions.                                              *)
(***************************************************************************)
EXTENDS Integers, Sequences, FiniteSets, TLC

VARIABLES platform, item, cb, op, args, calls, ret, intact, identifiers

vars == <<platform, item, cb, op, args, calls, ret, intact, identifiers>>

(* Longest ClipboardItem (number of formats) the model builds. *)
MaxFormats == 2

Platforms == {"windows", "mac"}

-----------------------------------------------------------------------------
(* Values.  A Rust String is a sequence of Unicode scalar values, a Vec<u8> *)
(* a sequence of bytes.                                                    *)

(* "" and "h\u{e9}\u{1F600}": empty, ASCII, non-ASCII inside and outside   *)
(* the basic multilingual plane. *)
Strings == {<<>>, <<104, 233, 128512>>}

(* Zero-length; and a binary property list ("b"...) that is not UTF-8. *)
DataSet == {<<>>, <<98, 255>>}

None == [kind |-> "none"]
Some(v) == [kind |-> "some", val |-> v]
Unit == [kind |-> "unit"]
Crash == [kind |-> "crash"]

RECURSIVE Flatten(_)
Flatten(ss) == IF ss = <<>> THEN <<>> ELSE Head(ss) \o Flatten(Tail(ss))

(* str::encode_utf16 / NSString's storage: UTF-16 code units. *)
Utf16Unit(c) ==
    IF c < 65536 THEN <<c>>
    ELSE <<55296 + ((c - 65536) \div 1024), 56320 + ((c - 65536) % 1024)>>

Utf16Encode(s) == Flatten([i \in 1..Len(s) |-> Utf16Unit(s[i])])

IsHighSurrogate(u) == u >= 55296 /\ u <= 56319
IsLowSurrogate(u) == u >= 56320 /\ u <= 57343

(* String::from_utf16: none on an unpaired surrogate. *)
RECURSIVE Utf16Decode(_)
Utf16Decode(u) ==
    IF u = <<>> THEN Some(<<>>)
    ELSE IF IsHighSurrogate(u[1])
    THEN IF Len(u) >= 2 /\ IsLowSurrogate(u[2])
         THEN LET rest == Utf16Decode(SubSeq(u, 3, Len(u)))
                  c == 65536 + (u[1] - 55296) * 1024 + (u[2] - 56320)
              IN IF rest.kind = "some" THEN Some(<<c>> \o rest.val) ELSE None
         ELSE None
    ELSE IF IsLowSurrogate(u[1]) THEN None
    ELSE LET rest == Utf16Decode(Tail(u))
         IN IF rest.kind = "some" THEN Some(<<u[1]>> \o rest.val) ELSE None

(* UTF-8 encoding of one scalar value. *)
Utf8Char(c) ==
    IF c < 128 THEN <<c>>
    ELSE IF c < 2048 THEN <<192 + (c \div 64), 128 + (c % 64)>>
    ELSE IF c < 65536
    THEN <<224 + (c \div 4096), 128 + ((c \div 64) % 64), 128 + (c % 64)>>
    ELSE <<240 + (c \div 262144), 128 + ((c \div 4096) % 64),
           128 + ((c \div 64) % 64), 128 + (c % 64)>>

Utf8Encode(s) == Flatten([i \in 1..Len(s) |-> Utf8Char(s[i])])

IsCont(b) == b >= 128 /\ b <= 191

(* Number of continuation bytes a lead byte announces; -1: not a lead. *)
Utf8Need(b) ==
    IF b < 128 THEN 0
    ELSE IF b >= 194 /\ b <= 223 THEN 1
    ELSE IF b >= 224 /\ b <= 239 THEN 2
    ELSE IF b >= 240 /\ b <= 244 THEN 3
    ELSE 0 - 1

RECURSIVE ContRun(_, _)
ContRun(b, max) ==
    IF max = 0 \/ b = <<>> \/ ~IsCont(b[1]) THEN 0
    ELSE 1 + ContRun(Tail(b), max - 1)

Utf8Value(b, n) ==
    IF n = 0 THEN b[1]
    ELSE IF n = 1 THEN (b[1] - 192) * 64 + (b[2] - 128)
    ELSE IF n = 2 THEN (b[1] - 224) * 4096 + (b[2] - 128) * 64 + (b[3] - 128)
    ELSE (b[1] - 240) * 262144 + (b[2] - 128) * 4096 + (b[3] - 128) * 64
         + (b[4] - 128)

(* String::from_utf8_lossy: every ill-formed subsequence becomes U+FFFD. *)
RECURSIVE Utf8DecodeLossy(_)
Utf8DecodeLossy(b) ==
    IF b = <<>> THEN <<>>
    ELSE LET need == Utf8Need(b[1])
             have == IF need <= 0 THEN 0 ELSE ContRun(Tail(b), need)
         IN IF need < 0 THEN <<65533>> \o Utf8DecodeLossy(Tail(b))
            ELSE IF have < need
            THEN <<65533>> \o Utf8DecodeLossy(SubSeq(b, 2 + have, Len(b)))
            ELSE <<Utf8Value(b, need)>>
                 \o Utf8DecodeLossy(SubSeq(b, 2 + need, Len(b)))

-----------------------------------------------------------------------------
(* clipboard.rs: descriptors, formats, items.                               *)

(* ClipboardWrite / ClipboardRead implementations.  Pdf and                 *)
(* GlyphsBinaryPlist are the ones of clipboard.rs; UserString and UserNul   *)
(* stand for implementations an embedding application supplies.            *)
Descriptors(p) ==
    IF p = "mac" THEN {"Pdf", "Glyphs", "UserString", "UserNul"}
    ELSE {"Pdf", "UserString", "UserNul"}

(* An implementation that names the hidden but public variant              *)
(* Identifier::__NonExhaustive; Windows identifiers are plain &str.        *)
HiddenDescriptors(p) == IF p = "mac" THEN {"UserHidden"} ELSE {}

(* The descriptors an application uses: those naming a Uti, or any the     *)
(* public types allow.                                                     *)
DescriptorsIn(p, ids) ==
    IF ids = "any" THEN Descriptors(p) \cup HiddenDescriptors(p)
    ELSE Descriptors(p)

Uti(id) == [variant |-> "Uti", id |-> id]

(* Identifier::__NonExhaustive *)
NonExhaustiveId == [variant |-> "__NonExhaustive"]

(* NSPasteboardTypeString *)
NSPasteboardTypeString == "public.utf8-plain-text"

(* ClipboardWrite::write_options, per target: the default is None, and the *)
(* repository's implementations exist only behind cfg(target_os = "macos"). *)
write_options(p, d) ==
    IF p = "mac"
    THEN CASE d = "Pdf" ->
                Some([identifier |-> Uti("com.adobe.pdf"), data_type |-> "Data"])
           [] d = "Glyphs" ->
                Some([identifier |-> Uti("Glyphs elements pasteboard type"),
                      data_type |-> "BinaryPlist"])
           [] d = "UserString" ->
                Some([identifier |-> Uti("user.string"), data_type |-> "String"])
           [] d = "UserHidden" ->
                Some([identifier |-> NonExhaustiveId, data_type |-> "Data"])
           [] OTHER -> None
    ELSE CASE d = "UserString" -> Some([identifier |-> "user.string"])
           [] d = "UserNul" -> Some([identifier |-> "user\\0nul"])
           [] OTHER -> None

(* ClipboardRead::read_options: the reading counterpart of each descriptor *)
(* names the same identifier.                                              *)
read_options(p, d) ==
    LET w == write_options(p, d)
    IN IF w.kind = "some" THEN Some([identifier |-> w.val.identifier]) ELSE None

(* ClipboardRead::parse.  "identity" is Pdf's parse (Some(data)); "strict" *)
(* is a parser that rejects input it cannot decode (here: no bytes).       *)
ParseKinds == {"identity", "strict"}

parse(pk, data) ==
    IF pk = "strict" /\ data = <<>> THEN None ELSE Some(data)

ReadersOver(ds) == [desc : ds, parse : ParseKinds]

Readers(p) == ReadersOver(Descriptors(p))

Text(s) == [kind |-> "Text", text |-> s]
Custom(d, i) == [kind |-> "Custom", data |-> d, info |-> i]
NotExhaustive == [kind |-> "__NotExhaustive"]

ClipboardFormatsOver(ds) ==
    {Text(s) : s \in Strings}
    \cup {Custom(d, i) : d \in DataSet, i \in ds}
    \cup {NotExhaustive}

ClipboardFormats(p) == ClipboardFormatsOver(Descriptors(p))

(* ClipboardItem(Vec<ClipboardFormat>) *)
ClipboardItemsOver(ds) ==
    UNION {[1..n -> ClipboardFormatsOver(ds)] : n \in 0..MaxFormats}

ClipboardItems(p) == ClipboardItemsOver(Descriptors(p))

(* supports_current_platform without the look at write_options: every     *)
(* Custom format counts as supported.                                      *)
supports_without_options(p, fmt) ==
    CASE fmt.kind = "Text" -> TRUE
      [] fmt.kind = "Custom" -> TRUE
      [] OTHER -> FALSE

(* ClipboardFormat::supports_current_platform *)
supports_current_platform(p, fmt) ==
    CASE fmt.kind = "Text" -> TRUE
      [] fmt.kind = "Custom" -> write_options(p, fmt.info).kind = "some"
      [] OTHER -> FALSE

(* What converts into a ClipboardFormat: a String, a &str, a pair of bytes  *)
(* and a descriptor, and a ClipboardFormat itself.                         *)
Convertibles(p) ==
    {[kind |-> "String", s |-> s] : s \in Strings}
    \cup {[kind |-> "str", s |-> s] : s \in Strings}
    \cup {[kind |-> "pair", data |-> d, info |-> i] :
              d \in DataSet, i \in Descriptors(p)}
    \cup ClipboardFormats(p)

(* From<String>, From<&str>, From<(Vec<u8>, T)> for ClipboardFormat, and   *)
(* the reflexive From.                                                     *)
into(v) ==
    CASE v.kind = "String" -> Text(v.s)
      [] v.kind = "str" -> Text(v.s)
      [] v.kind = "pair" -> Custom(v.data, v.info)
      [] OTHER -> v

(* ClipboardItem::new *)
new(v) == <<into(v)>>

(* add_format that puts the format in front of the list.                   *)
add_format_in_front(it, v) == <<into(v)>> \o it

(* ClipboardItem::add_format *)
add_format(it, v) == Append(it, into(v))

(* From<Vec<ClipboardFormat>> for ClipboardItem *)
from(src) == src

(* The filter of iter_supported, as the positions it lets through. *)
RECURSIVE SupportedFrom(_, _, _)
SupportedFrom(p, it, i) ==
    IF i > Len(it) THEN <<>>
    ELSE IF supports_current_platform(p, it[i])
         THEN <<i>> \o SupportedFrom(p, it, i + 1)
         ELSE SupportedFrom(p, it, i + 1)

(* The positions of every format of the item, supported or not.           *)
EveryIdx(p, it) == [k \in 1..Len(it) |-> k]

SupportedIdx(p, it) == SupportedFrom(p, it, 1)

(* ClipboardItem::iter_supported *)
iter_supported(p, it) ==
    LET idx == SupportedIdx(p, it) IN [k \in 1..Len(idx) |-> it[idx[k]]]

-----------------------------------------------------------------------------
(* The system clipboard: the slots present, in enumeration order.  A slot  *)
(* is [id, tag, v]: the native format (a UINT on Windows, a pasteboard     *)
(* type string on macOS), the shape of what is stored and the stored       *)
(* words/bytes.                                                            *)

Slot(id, tag, v) == [id |-> id, tag |-> tag, v |-> v]

HasSlot(c, id) == \E k \in 1..Len(c) : c[k].id = id

SlotOf(c, id) == c[CHOOSE k \in 1..Len(c) : c[k].id = id]

(* Store under a native format: replaces the slot when it exists, else     *)
(* appends it.                                                             *)
Store(c, sl) ==
    IF HasSlot(c, sl.id)
    THEN [k \in 1..Len(c) |-> IF c[k].id = sl.id THEN sl ELSE c[k]]
    ELSE Append(c, sl)

(* One native call the adapter issued: the function, the position in the   *)
(* item of the format it is for (0: none), its arguments, its success.     *)
Call(fn, i, arg, ok) == [fn |-> fn, i |-> i, arg |-> arg, ok |-> ok]

Result(c, cs, r) == [cb |-> c, calls |-> cs, ret |-> r]

-----------------------------------------------------------------------------
(* windows/clipboard.rs                                                    *)

CF_BITMAP == 2
CF_UNICODETEXT == 13

(* Identifiers holding a NUL byte: CString::new refuses them. *)
HasNulByte(ident) == ident = "user\\0nul"

(* RegisterClipboardFormatA: the atom of a name; the same name always gets *)
(* the same atom, in the range of registered formats.                      *)
RegisterClipboardFormatA(ident) ==
    CASE ident = "user.string" -> 49152
      [] ident = "user\\0nul" -> 49153
      [] OTHER -> 49154

(* util::ToWide::to_wide: UTF-16 code units and the terminating 0. *)
to_wide(s) == Utf16Encode(s) \o <<0>>

RECURSIVE UntilNul(_)
UntilNul(u) ==
    IF u = <<>> \/ u[1] = 0 THEN <<>> ELSE <<u[1]>> \o UntilNul(Tail(u))

(* util::FromWide::from_wide on an LPWSTR: the units up to the first 0,    *)
(* decoded.                                                                *)
from_wide(u) == Utf16Decode(UntilNul(u))

(* What GetClipboardData hands back: a usable handle, NULL, or NULL in a   *)
(* build where touching it traps.                                          *)
Handles == {"valid", "null", "null_trap"}

(* What a block holds beyond the bytes written to it: GlobalSize may       *)
(* report more than was asked of GlobalAlloc.                              *)
Slacks == {<<>>, <<0>>}

(* GlobalSize: the byte size of the block behind a slot. *)
GlobalSize(sl, slack) ==
    (IF sl.tag = "units" THEN 2 * Len(sl.v) ELSE Len(sl.v)) + Len(slack)

(* The bytes of the block behind a slot (WCHARs are little-endian). *)
GlobalBytes(sl, slack) ==
    (IF sl.tag = "units"
     THEN Flatten([k \in 1..Len(sl.v) |-> <<sl.v[k] % 256, sl.v[k] \div 256>>])
     ELSE sl.v) \o slack

(* An EmptyClipboard that frees the first format only. *)
EmptyFirstOnly(c) == IF c = <<>> THEN <<>> ELSE Tail(c)

EmptyClipboard(c) == <<>>

SetClipboardData(c, format, tag, v) == Store(c, Slot(format, tag, v))

(* An availability test that only asks whether the clipboard holds        *)
(* anything.                                                               *)
AnyFormatAvailable(c, format) == c # <<>>

IsClipboardFormatAvailable(c, format) == HasSlot(c, format)

(* iter_clipboard_types: EnumClipboardFormats until it returns 0. *)
iter_clipboard_types(c) == [k \in 1..Len(c) |-> c[k].id]

(* register_identifier that hands on whatever RegisterClipboardFormatA     *)
(* returned, 0 included.                                                   *)
register_identifier_unchecked(ident, osOk, i) ==
    IF HasNulByte(ident)
    THEN [ret |-> None, calls |-> <<Call("CString::new", i, <<ident>>, FALSE)>>]
    ELSE [ret |-> Some(IF osOk THEN RegisterClipboardFormatA(ident) ELSE 0),
          calls |-> <<Call("RegisterClipboardFormatA", i, <<ident>>, osOk)>>]

(* register_identifier(ident) of format i; osOk: RegisterClipboardFormatA  *)
(* returned an atom rather than 0.                                         *)
register_identifier(ident, osOk, i) ==
    IF HasNulByte(ident)
    THEN [ret |-> None, calls |-> <<Call("CString::new", i, <<ident>>, FALSE)>>]
    ELSE IF ~osOk
    THEN [ret |-> None,
          calls |-> <<Call("RegisterClipboardFormatA", i, <<ident>>, FALSE)>>]
    ELSE [ret |-> Some(RegisterClipboardFormatA(ident)),
          calls |-> <<Call("RegisterClipboardFormatA", i, <<ident>>, TRUE)>>]

(* One turn of the loop of set_clipboard_contents, for the format at       *)
(* position i of the item.  done: the function left the loop for good.     *)
WinWriteOne(st, it, i, regFail, writeFail) ==
    LET fmt == it[i]
        ok == i \notin writeFail
    IN CASE fmt.kind = "Text" ->
              LET wstr == to_wide(fmt.text)
              IN [st EXCEPT
                    !.cb = IF ok
                           THEN SetClipboardData(@, CF_UNICODETEXT, "units", wstr)
                           ELSE @,
                    !.calls = @ \o
                        <<Call("GlobalAlloc", i, <<Len(wstr) * 2>>, TRUE),
                          Call("SetClipboardData", i, <<CF_UNICODETEXT>>, ok)>>]
         [] fmt.kind = "Custom" ->
              LET opts == write_options("windows", fmt.info)
              IN IF opts.kind # "some"
                 THEN [st EXCEPT !.ret = Crash]
                 ELSE LET reg == register_identifier(opts.val.identifier,
                                                     i \notin regFail, i)
                      IN IF reg.ret.kind # "some"
                         THEN [st EXCEPT !.calls = @ \o reg.calls]
                         ELSE [st EXCEPT
                                 !.cb = IF ok
                                        THEN SetClipboardData(@, reg.ret.val,
                                                              "bytes", fmt.data)
                                        ELSE @,
                                 !.calls = @ \o reg.calls \o
                                     <<Call("GlobalAlloc", i, <<Len(fmt.data)>>, TRUE),
                                       Call("SetClipboardData", i,
                                            <<reg.ret.val>>, ok)>>]
         [] OTHER -> st

(* The loop of set_clipboard_contents walking the supported formats from   *)
(* the last to the first.                                                  *)
RECURSIVE WinWriteLoopBackwards(_, _, _, _, _, _)
WinWriteLoopBackwards(st, it, idx, k, regFail, writeFail) ==
    IF k > Len(idx) \/ st.ret.kind = "crash" THEN st
    ELSE WinWriteLoopBackwards(
             WinWriteOne(st, it, idx[Len(idx) + 1 - k], regFail, writeFail),
             it, idx, k + 1, regFail, writeFail)

RECURSIVE WinWriteLoop(_, _, _, _, _, _)
WinWriteLoop(st, it, idx, k, regFail, writeFail) ==
    IF k > Len(idx) \/ st.ret.kind = "crash" THEN st
    ELSE WinWriteLoop(WinWriteOne(st, it, idx[k], regFail, writeFail),
                      it, idx, k + 1, regFail, writeFail)

(* set_clipboard_contents without its closing CloseClipboard. *)
WinNeverClose(st) == st

(* The end of set_clipboard_contents: CloseClipboard, unless the loop      *)
(* panicked.                                                               *)
WinClose(st) ==
    IF st.ret.kind = "crash" THEN st
    ELSE [st EXCEPT !.calls = Append(@, Call("CloseClipboard", 0, <<>>, TRUE))]

(* set_clipboard_contents that does not look at what OpenClipboard         *)
(* returned.                                                               *)
win_set_unchecked_open(c, it, openOk, regFail, writeFail) ==
    WinClose(WinWriteLoop(
        Result(EmptyClipboard(c),
               <<Call("OpenClipboard", 0, <<>>, openOk),
                 Call("EmptyClipboard", 0, <<>>, TRUE)>>,
               Unit),
        it, SupportedIdx("windows", it), 1, regFail, writeFail))

(* set_clipboard_contents(new_contents).  openOk: OpenClipboard succeeded; *)
(* regFail, writeFail: the positions whose registration, whose             *)
(* SetClipboardData the system refuses.                                    *)
win_set_clipboard_contents(c, it, openOk, regFail, writeFail) ==
    IF ~openOk
    THEN Result(c, <<Call("OpenClipboard", 0, <<>>, FALSE)>>, Unit)
    ELSE WinClose(WinWriteLoop(
             Result(EmptyClipboard(c),
                    <<Call("OpenClipboard", 0, <<>>, TRUE),
                      Call("EmptyClipboard", 0, <<>>, TRUE)>>,
                    Unit),
             it, SupportedIdx("windows", it), 1, regFail, writeFail))

(* ClipboardContents::string_value *)
win_string_value(c) == Result(c, <<>>, None)

(* ptr::copy_nonoverlapping into the Vec and set_len: the first size bytes *)
(* of the locked block, one short.                                         *)
copy_one_short(block, size) == SubSeq(block, 1, size - 1)

(* ptr::copy_nonoverlapping(locked, dest.as_mut_ptr(), size) and           *)
(* dest.set_len(size): the first size bytes of the locked block.           *)
copy_nonoverlapping(block, size) == SubSeq(block, 1, size)

(* The end of a read that parses before it lets go of the block and of the *)
(* clipboard.                                                              *)
ParseThenRelease(size, isNull, dest) ==
    <<Call("copy", 0, <<size>>, TRUE),
      Call("parse", 0, dest, TRUE),
      Call("GlobalUnlock", 0, <<>>, ~isNull),
      Call("CloseClipboard", 0, <<>>, TRUE)>>

(* The end of a read of a present format: copy, GlobalUnlock,              *)
(* CloseClipboard, reader.parse(dest).                                     *)
CopyThenRelease(size, isNull, dest) ==
    <<Call("copy", 0, <<size>>, TRUE),
      Call("GlobalUnlock", 0, <<>>, ~isNull),
      Call("CloseClipboard", 0, <<>>, TRUE),
      Call("parse", 0, dest, TRUE)>>

(* ClipboardContents::custom_value(reader) *)
win_custom_value(c, reader, regOk, openOk, handle, slack) ==
    LET opts == read_options("windows", reader.desc)
    IN IF opts.kind # "some" THEN Result(c, <<>>, None)
       ELSE
       LET reg == register_identifier(opts.val.identifier, regOk, 0)
       IN IF reg.ret.kind # "some" THEN Result(c, reg.calls, None)
          ELSE IF ~openOk
          THEN Result(c, reg.calls \o <<Call("OpenClipboard", 0, <<>>, FALSE)>>, None)
          ELSE
          LET format == reg.ret.val
              opened == reg.calls \o
                  <<Call("OpenClipboard", 0, <<>>, TRUE),
                    Call("IsClipboardFormatAvailable", 0, <<format>>,
                         IsClipboardFormatAvailable(c, format))>>
          IN IF IsClipboardFormatAvailable(c, format)
             THEN LET isNull == handle # "valid" \/ ~HasSlot(c, format)
                      size == IF isNull THEN 0 ELSE GlobalSize(SlotOf(c, format), slack)
                      dest == IF isNull THEN <<>>
                              ELSE copy_nonoverlapping(
                                       GlobalBytes(SlotOf(c, format), slack),
                                       size)
                      got == opened \o
                          <<Call("GetClipboardData", 0, <<format>>, ~isNull),
                            Call("GlobalSize", 0, <<size>>, ~isNull),
                            Call("GlobalLock", 0, <<>>, ~isNull)>>
                  IN IF handle = "null_trap"
                     THEN Result(c, got, Crash)
                     ELSE Result(c,
                                 got \o CopyThenRelease(size, isNull, dest),
                                 parse(reader.parse, dest))
             ELSE Result(c,
                         opened \o
                         [k \in 1..Len(c) |->
                             Call("GetClipboardFormatName", 0,
                                  <<iter_clipboard_types(c)[k]>>, TRUE)]
                         \o <<Call("CloseClipboard", 0, <<>>, TRUE)>>,
                         None)

(* get_unicode_text; the second component is the calls it makes. *)
get_unicode_text(c, handle) ==
    LET get == Call("GetClipboardData", 0, <<CF_UNICODETEXT>>, handle = "valid")
    IN IF handle # "valid"
       THEN IF handle = "null_trap"
            THEN [ret |-> Crash,
                  calls |-> <<get, Call("GlobalLock", 0, <<>>, FALSE)>>]
            ELSE LET result == from_wide(<<>>)
                 IN [ret |-> IF result.kind = "some"
                             THEN Some(<<Text(result.val)>>) ELSE None,
                     calls |-> <<get, Call("GlobalLock", 0, <<>>, FALSE),
                                 Call("GlobalUnlock", 0, <<>>, FALSE)>>]
       ELSE [ret |-> None, calls |-> <<get>>]

(* get_clipboard_impl: the first CF_UNICODETEXT among the formats present  *)
(* decides; the formats before it are only printed.                        *)
RECURSIVE get_clipboard_impl(_, _, _)
get_clipboard_impl(c, k, handle) ==
    IF k > Len(c) THEN [ret |-> None, calls |-> <<>>]
    ELSE IF iter_clipboard_types(c)[k] = CF_UNICODETEXT
         THEN get_unicode_text(c, handle)
         ELSE get_clipboard_impl(c, k + 1, handle)

(* get_clipboard_contents that asks for the clipboard a second time when   *)
(* the first OpenClipboard fails.                                          *)
win_get_clipboard_contents_retry(c, openOk, handle) ==
    IF ~openOk
    THEN Result(c, <<Call("OpenClipboard", 0, <<>>, FALSE),
                     Call("OpenClipboard", 0, <<>>, FALSE)>>, None)
    ELSE LET r == get_clipboard_impl(c, 1, handle)
             cs == <<Call("OpenClipboard", 0, <<>>, TRUE)>> \o r.calls
         IN IF r.ret.kind = "crash" THEN Result(c, cs, Crash)
            ELSE Result(c, cs \o <<Call("CloseClipboard", 0, <<>>, TRUE)>>, r.ret)

(* get_clipboard_contents *)
win_get_clipboard_contents(c, openOk, handle) ==
    IF ~openOk
    THEN Result(c, <<Call("OpenClipboard", 0, <<>>, FALSE)>>, None)
    ELSE LET r == get_clipboard_impl(c, 1, handle)
             cs == <<Call("OpenClipboard", 0, <<>>, TRUE)>> \o r.calls
         IN IF r.ret.kind = "crash" THEN Result(c, cs, Crash)
            ELSE Result(c, cs \o <<Call("CloseClipboard", 0, <<>>, TRUE)>>, r.ret)

-----------------------------------------------------------------------------
(* mac/clipboard.rs, mac/application.rs                                    *)

(* util::make_nsstring: an NSString holds UTF-16 code units. *)
make_nsstring(s) == Utf16Encode(s)

(* util::from_nsstring: the string's UTF-8 bytes, taken as a Rust string. *)
from_nsstring(ns) ==
    LET d == Utf16Decode(ns) IN IF d.kind = "some" THEN d.val ELSE <<>>

(* util::from_nsdata: the bytes of the NSData, copied into a Vec<u8> of    *)
(* its length.                                                             *)
from_nsdata(data) == [k \in 1..Len(data) |-> data[k]]

(* Identifier::to_nsstring: unreachable!() for any variant but Uti. *)
to_nsstring(identifier) ==
    IF identifier.variant = "Uti" THEN Some(identifier.id) ELSE Crash

(* +[NSPropertyListSerialization propertyListWithData:...]: the property   *)
(* list the bytes encode, or nil when they are no property list.  A binary *)
(* property list starts with "b"("plist00"); what follows is its content.  *)
propertyListWithData(data) ==
    IF data # <<>> /\ data[1] = 98 THEN Some(Tail(data)) ELSE None

(* The serialisation in which the pasteboard hands out a property list it *)
(* was given: the pasteboard's choice, binary ("b"...) or XML ("<"...).    *)
PlistFormats == {"binary", "xml"}

PlistData(obj, plistFormat) ==
    IF plistFormat = "binary" THEN <<98>> \o obj ELSE <<60>> \o obj

(* A clearContents that leaves the pasteboard as it is.                     *)
clearContents_keeps(c) == c

(* -[NSPasteboard clearContents] *)
clearContents(c) == <<>>

RECURSIVE Dedup(_)
Dedup(ts) ==
    IF ts = <<>> THEN <<>>
    ELSE IF \E k \in 1..(Len(ts) - 1) : ts[k] = ts[Len(ts)]
         THEN Dedup(SubSeq(ts, 1, Len(ts) - 1))
         ELSE Append(Dedup(SubSeq(ts, 1, Len(ts) - 1)), ts[Len(ts)])

(* -[NSPasteboard declareTypes:owner:]: the pasteboard now offers exactly  *)
(* these types, none with data yet; nil declares nothing.                  *)
declareTypes(c, types) ==
    IF types.kind # "some" THEN <<>>
    ELSE LET ts == Dedup(types.val)
         IN [k \in 1..Len(ts) |-> Slot(ts[k], "nil", <<>>)]

(* -[NSPasteboard setString:/setData:/setPropertyList: forType:] *)
setForType(c, type, tag, v) == Store(c, Slot(type, tag, v))

(* -[NSPasteboard stringForType:]: nil without string data of that type. *)
stringForType(c, type) ==
    IF ~HasSlot(c, type) THEN None
    ELSE LET sl == SlotOf(c, type)
         IN CASE sl.tag = "string" -> Some(sl.v)
              [] sl.tag = "data" -> Some(make_nsstring(Utf8DecodeLossy(sl.v)))
              [] OTHER -> None

(* -[NSPasteboard dataForType:]: nil for a type declared but never written. *)
dataForType(c, type, plistFormat) ==
    IF ~HasSlot(c, type) THEN None
    ELSE LET sl == SlotOf(c, type)
         IN CASE sl.tag = "data" -> Some(sl.v)
              [] sl.tag = "string" -> Some(Utf8Encode(from_nsstring(sl.v)))
              [] sl.tag = "plist" -> Some(PlistData(sl.v, plistFormat))
              [] OTHER -> None

(* -[NSPasteboard types] *)
types(c) == [k \in 1..Len(c) |-> c[k].id]

(* The native type of one supported format, as make_types_array maps it. *)
TypeOfFormat(fmt) ==
    CASE fmt.kind = "Text" -> Some(NSPasteboardTypeString)
      [] fmt.kind = "Custom" ->
           LET opts == write_options("mac", fmt.info)
           IN IF opts.kind # "some" THEN Crash
              ELSE to_nsstring(opts.val.identifier)
      [] OTHER -> Crash

(* make_types_array that hands on the type of the first supported format  *)
(* only.                                                                   *)
make_types_array_first_only(it) ==
    LET fmts == iter_supported("mac", it)
        tys == [k \in 1..Len(fmts) |-> TypeOfFormat(fmts[k])]
    IN IF \E k \in 1..Len(tys) : tys[k].kind = "crash" THEN Crash
       ELSE IF Len(tys) = 0 THEN Some(None)
       ELSE Some(Some(<<tys[1].val>>))

(* ClipboardItem::make_types_array: None for no supported format. *)
make_types_array(it) ==
    LET fmts == iter_supported("mac", it)
        tys == [k \in 1..Len(fmts) |-> TypeOfFormat(fmts[k])]
    IN IF \E k \in 1..Len(tys) : tys[k].kind = "crash" THEN Crash
       ELSE IF Len(tys) = 0 THEN Some(None)
       ELSE Some(Some([k \in 1..Len(tys) |-> tys[k].val]))

(* make_nsobj_for_format with DataType::Data sent through the string arm.  *)
make_nsobj_data_as_string(data, opts) ==
    CASE opts.data_type \in {"String", "Data"} ->
           Some([tag |-> "string", v |-> make_nsstring(Utf8DecodeLossy(data))])
      [] OTHER ->
           LET pl == propertyListWithData(data)
           IN IF pl.kind = "some" THEN Some([tag |-> "plist", v |-> pl.val])
              ELSE None

(* make_nsobj_for_format that hands back an empty property list where the *)
(* bytes are none.                                                         *)
make_nsobj_for_format_placeholder(data, opts) ==
    CASE opts.data_type = "String" ->
           Some([tag |-> "string", v |-> make_nsstring(Utf8DecodeLossy(data))])
      [] opts.data_type = "Data" -> Some([tag |-> "data", v |-> data])
      [] OTHER ->
           LET pl == propertyListWithData(data)
           IN Some([tag |-> "plist",
                    v |-> IF pl.kind = "some" THEN pl.val ELSE <<>>])

(* make_nsobj_for_format: the NSObject for the bytes, nil when the bytes   *)
(* are no property list.                                                   *)
make_nsobj_for_format(data, opts) ==
    CASE opts.data_type = "String" ->
           Some([tag |-> "string", v |-> make_nsstring(Utf8DecodeLossy(data))])
      [] opts.data_type = "Data" -> Some([tag |-> "data", v |-> data])
      [] OTHER ->
           LET pl == propertyListWithData(data)
           IN IF pl.kind = "some" THEN Some([tag |-> "plist", v |-> pl.val])
              ELSE None

SetterOf(data_type) ==
    CASE data_type = "String" -> "setString"
      [] data_type = "Data" -> "setData"
      [] OTHER -> "setPropertyList"

(* One turn of the loop of Application::set_clipboard_contents.  st.done:  *)
(* the function has returned.                                              *)
MacWriteOne(st, it, i, writeFail) ==
    LET fmt == it[i]
        ok == i \notin writeFail
    IN CASE fmt.kind = "Text" ->
              [st EXCEPT
                 !.cb = IF ok
                        THEN setForType(@, NSPasteboardTypeString, "string",
                                        make_nsstring(fmt.text))
                        ELSE @,
                 !.calls = Append(@, Call("setString", i,
                                          <<NSPasteboardTypeString>>, ok))]
         [] fmt.kind = "Custom" ->
              LET opts == write_options("mac", fmt.info)
              IN IF opts.kind # "some"
                 THEN [st EXCEPT !.ret = Crash, !.done = TRUE]
                 ELSE
                 LET pb_type == to_nsstring(opts.val.identifier)
                     pb_data == make_nsobj_for_format(fmt.data, opts.val)
                 IN IF pb_type.kind # "some"
                    THEN [st EXCEPT !.ret = Crash, !.done = TRUE]
                    ELSE IF pb_data.kind # "some"
                    THEN [st EXCEPT
                            !.calls = Append(@, Call("make_nsobj_for_format", i,
                                                     <<pb_type.val>>, FALSE)),
                            !.done = TRUE]
                    ELSE [st EXCEPT
                            !.cb = IF ok
                                   THEN setForType(@, pb_type.val,
                                                   pb_data.val.tag, pb_data.val.v)
                                   ELSE @,
                            !.calls = @ \o
                                <<Call("make_nsobj_for_format", i,
                                       <<pb_type.val>>, TRUE),
                                  Call(SetterOf(opts.val.data_type), i,
                                       <<pb_type.val>>, ok)>>]
         [] OTHER -> st

RECURSIVE MacWriteLoop(_, _, _, _, _)
MacWriteLoop(st, it, idx, k, writeFail) ==
    IF k > Len(idx) \/ st.done THEN st
    ELSE MacWriteLoop(MacWriteOne(st, it, idx[k], writeFail),
                      it, idx, k + 1, writeFail)

(* Application::set_clipboard_contents(item).  writeFail: the positions    *)
(* whose set...:forType: the pasteboard refuses (the BOOL is dropped).     *)
(* declareOk: pb_types is an Option<id>, two words where declareTypes:     *)
(* takes one object pointer; either the pasteboard gets the array (nil for *)
(* None), or it gets something that is no object and the call traps.       *)
MacDeclareAndWrite(c, it, writeFail, pb_types, declareOk) ==
    IF pb_types.kind = "crash"
    THEN [cb |-> clearContents(c),
          calls |-> <<Call("clearContents", 0, <<>>, TRUE)>>,
          ret |-> Crash, done |-> TRUE]
    ELSE IF ~declareOk
    THEN [cb |-> clearContents(c),
          calls |-> <<Call("clearContents", 0, <<>>, TRUE),
                      Call("declareTypes", 0,
                           IF pb_types.val.kind = "some"
                           THEN pb_types.val.val ELSE <<>>,
                           FALSE)>>,
          ret |-> Crash, done |-> TRUE]
    ELSE MacWriteLoop(
             [cb |-> declareTypes(clearContents(c), pb_types.val),
              calls |-> <<Call("clearContents", 0, <<>>, TRUE),
                          Call("declareTypes", 0,
                               IF pb_types.val.kind = "some"
                               THEN pb_types.val.val ELSE <<>>,
                               TRUE)>>,
              ret |-> Unit,
              done |-> FALSE],
             it, SupportedIdx("mac", it), 1, writeFail)

StripDone(st) == Result(st.cb, st.calls, st.ret)

mac_set_clipboard_contents(c, it, writeFail, declareOk) ==
    StripDone(MacDeclareAndWrite(c, it, writeFail, make_types_array(it),
                                 declareOk))

(* string_value that takes the text off the pasteboard as it reads it.     *)
mac_string_value_takes(c) ==
    LET contents == stringForType(c, NSPasteboardTypeString)
        cs == <<Call("stringForType", 0, <<NSPasteboardTypeString>>,
                     contents.kind = "some")>>
    IN IF contents.kind # "some" THEN Result(c, cs, None)
       ELSE Result(clearContents(c),
                   Append(cs, Call("clearContents", 0, <<>>, TRUE)),
                   Some(from_nsstring(contents.val)))

(* ClipboardContents::string_value *)
mac_string_value(c) ==
    LET contents == stringForType(c, NSPasteboardTypeString)
        cs == <<Call("stringForType", 0, <<NSPasteboardTypeString>>,
                     contents.kind = "some")>>
    IN IF contents.kind # "some" THEN Result(c, cs, None)
       ELSE Result(c, cs, Some(from_nsstring(contents.val)))

(* custom_value that asks the pasteboard for its types before it looks at  *)
(* the reader's options.                                                   *)
mac_custom_value_asks_first(c, reader, plistFormat) ==
    LET opts == read_options("mac", reader.desc)
        first == <<Call("types", 0, <<>>, TRUE)>>
    IN IF opts.kind # "some" THEN Result(c, first, None)
       ELSE
       LET pb_type == to_nsstring(opts.val.identifier)
       IN IF pb_type.kind # "some" THEN Result(c, first, Crash)
          ELSE
          LET has_got_it == \E k \in 1..Len(c) : types(c)[k] = pb_type.val
              asked == Append(first, Call("containsObject", 0, <<pb_type.val>>,
                                          has_got_it))
              data == dataForType(c, pb_type.val, plistFormat)
          IN IF ~has_got_it THEN Result(c, asked, None)
             ELSE IF data.kind # "some"
             THEN Result(c, Append(asked, Call("dataForType", 0,
                                               <<pb_type.val>>, FALSE)),
                         None)
             ELSE Result(c,
                         asked \o <<Call("dataForType", 0, <<pb_type.val>>, TRUE),
                                    Call("from_nsdata", 0, <<Len(data.val)>>, TRUE),
                                    Call("parse", 0, from_nsdata(data.val), TRUE)>>,
                         parse(reader.parse, from_nsdata(data.val)))

(* custom_value that does not look whether dataForType: gave nil and reads *)
(* nil as no bytes.                                                        *)
mac_custom_value_reads_nil(c, reader, plistFormat) ==
    LET opts == read_options("mac", reader.desc)
    IN IF opts.kind # "some" THEN Result(c, <<>>, None)
       ELSE
       LET pb_type == to_nsstring(opts.val.identifier)
       IN IF pb_type.kind # "some" THEN Result(c, <<>>, Crash)
          ELSE
          LET has_got_it == \E k \in 1..Len(c) : types(c)[k] = pb_type.val
              asked == <<Call("types", 0, <<>>, TRUE),
                         Call("containsObject", 0, <<pb_type.val>>, has_got_it)>>
              data == dataForType(c, pb_type.val, plistFormat)
              bytes == IF data.kind = "some" THEN from_nsdata(data.val) ELSE <<>>
          IN IF ~has_got_it THEN Result(c, asked, None)
             ELSE Result(c,
                         asked \o <<Call("dataForType", 0, <<pb_type.val>>,
                                         data.kind = "some"),
                                    Call("from_nsdata", 0, <<Len(bytes)>>, TRUE),
                                    Call("parse", 0, bytes, TRUE)>>,
                         parse(reader.parse, bytes))

(* ClipboardContents::custom_value(reader) *)
mac_custom_value(c, reader, plistFormat) ==
    LET opts == read_options("mac", reader.desc)
    IN IF opts.kind # "some" THEN Result(c, <<>>, None)
       ELSE
       LET pb_type == to_nsstring(opts.val.identifier)
       IN IF pb_type.kind # "some" THEN Result(c, <<>>, Crash)
          ELSE
          LET has_got_it == \E k \in 1..Len(c) : types(c)[k] = pb_type.val
              asked == <<Call("types", 0, <<>>, TRUE),
                         Call("containsObject", 0, <<pb_type.val>>, has_got_it)>>
              data == dataForType(c, pb_type.val, plistFormat)
          IN IF ~has_got_it THEN Result(c, asked, None)
             ELSE IF data.kind # "some"
             THEN Result(c, Append(asked, Call("dataForType", 0,
                                               <<pb_type.val>>, FALSE)),
                         None)
             ELSE Result(c,
                         asked \o <<Call("dataForType", 0, <<pb_type.val>>, TRUE),
                                    Call("from_nsdata", 0, <<Len(data.val)>>, TRUE),
                                    Call("parse", 0, from_nsdata(data.val), TRUE)>>,
                         parse(reader.parse, from_nsdata(data.val)))

(* Application::get_clipboard_contents: the first type equal to            *)
(* NSPasteboardTypeString decides.  nilTrap: reading a nil NSString traps  *)
(* rather than giving the empty string.                                    *)
RECURSIVE mac_get_from(_, _, _)
mac_get_from(c, k, nilTrap) ==
    IF k > Len(c) THEN [ret |-> None, calls |-> <<>>]
    ELSE IF types(c)[k] = NSPasteboardTypeString
         THEN LET contents == stringForType(c, types(c)[k])
                  cs == <<Call("stringForType", 0, <<types(c)[k]>>,
                               contents.kind = "some")>>
              IN IF contents.kind = "some"
                 THEN [ret |-> Some(<<Text(from_nsstring(contents.val))>>),
                       calls |-> cs]
                 ELSE IF nilTrap THEN [ret |-> Crash, calls |-> cs]
                 ELSE [ret |-> Some(<<Text(<<>>)>>), calls |-> cs]
         ELSE mac_get_from(c, k + 1, nilTrap)

mac_get_clipboard_contents(c, nilTrap) ==
    LET r == mac_get_from(c, 1, nilTrap)
    IN Result(c, <<Call("types", 0, <<>>, TRUE)>> \o r.calls, r.ret)

-----------------------------------------------------------------------------
(* The state machine: one application, one ClipboardItem, the system       *)
(* clipboard.                                                              *)

(* What other applications may have left on the clipboard: a bitmap/TIFF   *)
(* image; an image and then text.                                          *)
ForeignText == <<104, 233, 128512>>

InitialClipboards(p) ==
    IF p = "windows"
    THEN {<<Slot(CF_BITMAP, "bytes", <<1>>)>>,
          <<Slot(CF_BITMAP, "bytes", <<1>>),
            Slot(CF_UNICODETEXT, "units", to_wide(ForeignText))>>}
    ELSE {<<Slot("public.tiff", "data", <<1>>)>>,
          <<Slot("public.tiff", "data", <<1>>),
            Slot(NSPasteboardTypeString, "string", make_nsstring(ForeignText))>>}

NoArgs ==
    [reader |-> [desc |-> "Pdf", parse |-> "identity"], openOk |-> TRUE,
     regOk |-> TRUE, handle |-> "valid", slack |-> <<>>, regFail |-> {},
     writeFail |-> {},
     nilTrap |-> FALSE, plistFormat |-> "xml", declareOk |-> TRUE]

Range(f) == {f[k] : k \in DOMAIN f}

SupportedSet(p, it) == Range(SupportedIdx(p, it))

CustomSet(p, it) == {i \in SupportedSet(p, it) : it[i].kind = "Custom"}

(* Calls that put bytes on the clipboard. *)
WriteCalls == {"SetClipboardData", "setString", "setData", "setPropertyList"}

Written(cs, i) ==
    \E k \in 1..Len(cs) : cs[k].fn \in WriteCalls /\ cs[k].i = i /\ cs[k].ok

(* A set that acquired the clipboard and got every supported format onto   *)
(* it.                                                                     *)
FullyWritten(p, it, r) ==
    /\ r.ret.kind = "unit"
    /\ \E k \in 1..Len(r.calls) :
          r.calls[k].fn \in {"EmptyClipboard", "clearContents"}
    /\ \A i \in SupportedSet(p, it) : Written(r.calls, i)

Init ==
    /\ platform \in Platforms
    /\ item \in ClipboardItems(platform)
    /\ cb \in InitialClipboards(platform)
    /\ op = "none"
    /\ args = NoArgs
    /\ calls = <<>>
    /\ ret = Unit
    /\ intact = FALSE
    /\ identifiers = "uti"

(* An application that may also name Identifier::__NonExhaustive. *)
InitAny ==
    /\ platform \in Platforms
    /\ item \in ClipboardItemsOver(DescriptorsIn(platform, "any"))
    /\ cb \in InitialClipboards(platform)
    /\ op = "none"
    /\ args = NoArgs
    /\ calls = <<>>
    /\ ret = Unit
    /\ intact = FALSE
    /\ identifiers = "any"

(* The application makes one call at a time: a call starts from the idle   *)
(* state and leaves its outcome to be looked at; Return takes the          *)
(* application back to idle.  A call that crashed never returns.           *)
Idle == op = "none"

Finish(o, a, result) ==
    \E r \in {result} :
       /\ op' = o
       /\ args' = a
       /\ cb' = r.cb
       /\ calls' = r.calls
       /\ ret' = r.ret
       /\ UNCHANGED <<platform, item, identifiers>>

(* Application::set_clipboard_contents(item) *)
SetClipboardContents ==
    /\ Idle
    /\ \/ /\ platform = "windows"
          /\ \E openOk \in BOOLEAN :
             \E regFail \in SUBSET (IF openOk THEN CustomSet(platform, item) ELSE {}) :
             \E writeFail \in SUBSET (IF openOk
                                      THEN SupportedSet(platform, item) \ regFail
                                      ELSE {}) :
               \E r \in {win_set_clipboard_contents(cb, item, openOk, regFail,
                                                     writeFail)} :
                  /\ Finish("set", [NoArgs EXCEPT !.openOk = openOk,
                                                  !.regFail = regFail,
                                                  !.writeFail = writeFail], r)
                  /\ intact' = IF openOk THEN FullyWritten(platform, item, r)
                               ELSE intact
       \/ /\ platform = "mac"
          /\ \E declareOk \in BOOLEAN :
             \E writeFail \in SUBSET (IF declareOk
                                      THEN SupportedSet(platform, item)
                                      ELSE {}) :
               \E r \in {mac_set_clipboard_contents(cb, item, writeFail,
                                                     declareOk)} :
                  /\ Finish("set", [NoArgs EXCEPT !.writeFail = writeFail,
                                                  !.declareOk = declareOk], r)
                  /\ intact' = FullyWritten(platform, item, r)

(* The answers of the system a typed read can meet: all fine, a block      *)
(* larger than what was written, the atom refused, the clipboard held by   *)
(* someone else, a NULL data handle.                                       *)
ReadEnvs ==
    {[regOk |-> TRUE, openOk |-> TRUE, handle |-> h, slack |-> <<>>] :
        h \in Handles}
    \cup {[regOk |-> TRUE, openOk |-> TRUE, handle |-> "valid", slack |-> k] :
             k \in Slacks \ {<<>>}}
    \cup {[regOk |-> FALSE, openOk |-> TRUE, handle |-> "valid", slack |-> <<>>],
          [regOk |-> TRUE, openOk |-> FALSE, handle |-> "valid", slack |-> <<>>]}

(* Whether custom_value(reader) gets as far as asking the system for the   *)
(* atom, and whether the clipboard holds the reader's format.              *)
WinAsksAtom(reader) ==
    LET opts == read_options("windows", reader.desc)
    IN opts.kind = "some" /\ ~HasNulByte(opts.val.identifier)

WinHolds(c, reader) ==
    /\ WinAsksAtom(reader)
    /\ HasSlot(c, RegisterClipboardFormatA(
                     read_options("windows", reader.desc).val.identifier))

MacHolds(c, reader) ==
    LET opts == read_options("mac", reader.desc)
    IN /\ opts.kind = "some"
       /\ opts.val.identifier.variant = "Uti"
       /\ HasSlot(c, opts.val.identifier.id)

MacHoldsPlist(c, reader) ==
    /\ MacHolds(c, reader)
    /\ SlotOf(c, read_options("mac", reader.desc).val.identifier.id).tag = "plist"

(* ClipboardContents::custom_value(reader).  An answer of the system is an *)
(* input only where the code gets to ask for it, and so is the reader's    *)
(* parser: readers that differ in their parser alone are told apart only   *)
(* where the format is there to be parsed.                                 *)
CustomValue ==
    /\ Idle
    /\ \E reader \in ReadersOver(DescriptorsIn(platform, identifiers)) :
          \/ /\ platform = "windows"
             /\ \E e \in ReadEnvs :
                  /\ (~e.regOk \/ ~e.openOk) => WinAsksAtom(reader)
                  /\ (e.handle # "valid" \/ e.slack # <<>>) => WinHolds(cb, reader)
                  /\ reader.parse # "identity" =>
                         WinHolds(cb, reader) /\ e.regOk /\ e.openOk
                  /\ Finish("custom_value",
                            [NoArgs EXCEPT !.reader = reader, !.regOk = e.regOk,
                                           !.openOk = e.openOk, !.handle = e.handle,
                                           !.slack = e.slack],
                            win_custom_value(cb, reader, e.regOk, e.openOk, e.handle,
                                             e.slack))
                  /\ UNCHANGED intact
          \/ /\ platform = "mac"
             /\ reader.parse # "identity" => MacHolds(cb, reader)
             /\ \E pf \in PlistFormats :
                  /\ pf # "xml" => MacHoldsPlist(cb, reader)
                  /\ Finish("custom_value",
                            [NoArgs EXCEPT !.reader = reader, !.plistFormat = pf],
                            mac_custom_value(cb, reader, pf))
             /\ UNCHANGED intact

(* Application::get_clipboard_contents *)
GetClipboardContents ==
    /\ Idle
    /\ \/ /\ platform = "windows"
          /\ \E e \in {x \in ReadEnvs : x.regOk /\ x.slack = <<>>} :
               /\ e.handle # "valid" => HasSlot(cb, CF_UNICODETEXT)
               /\ Finish("get", [NoArgs EXCEPT !.openOk = e.openOk,
                                               !.handle = e.handle],
                         win_get_clipboard_contents(cb, e.openOk, e.handle))
               /\ UNCHANGED intact
       \/ /\ platform = "mac"
          /\ \E nilTrap \in BOOLEAN :
               /\ nilTrap => /\ HasSlot(cb, NSPasteboardTypeString)
                             /\ stringForType(cb, NSPasteboardTypeString).kind # "some"
               /\ Finish("get", [NoArgs EXCEPT !.nilTrap = nilTrap],
                         mac_get_clipboard_contents(cb, nilTrap))
               /\ UNCHANGED intact

(* ClipboardContents::string_value *)
StringValue ==
    /\ Idle
    /\ Finish("string_value", NoArgs,
              IF platform = "windows" THEN win_string_value(cb)
              ELSE mac_string_value(cb))
    /\ UNCHANGED intact

(* iter_supported that takes the formats out of the item as it yields      *)
(* them.                                                                   *)
IterSupportedDraining ==
    /\ Idle
    /\ op' = "iter_supported"
    /\ args' = NoArgs
    /\ calls' = <<>>
    /\ ret' = Some(iter_supported(platform, item))
    /\ item' = <<>>
    /\ UNCHANGED <<platform, cb, identifiers, intact>>

(* ClipboardItem::iter_supported, collected *)
IterSupported ==
    /\ Idle
    /\ Finish("iter_supported", NoArgs,
              Result(cb, <<>>, Some(iter_supported(platform, item))))
    /\ UNCHANGED intact

(* Another application takes the clipboard over. *)
ClipboardChanged ==
    /\ Idle
    /\ \E c \in InitialClipboards(platform) :
          /\ c # cb
          /\ Finish("none", NoArgs, Result(c, <<>>, Unit))
    /\ intact' = FALSE

(* The call is over; the application goes on. *)
Return ==
    /\ ~Idle
    /\ ret.kind # "crash"
    /\ Finish("none", NoArgs, Result(cb, <<>>, Unit))
    /\ UNCHANGED intact

(* The application builds its item.  Built: the item is what the call     *)
(* returned.                                                               *)
Built(o, v, it) ==
    /\ op' = o
    /\ args' = [value |-> v]
    /\ item' = it
    /\ ret' = Some(it)
    /\ calls' = <<>>
    /\ UNCHANGED <<platform, cb, intact, identifiers>>

(* ClipboardItem::new(item) *)
New ==
    /\ Idle
    /\ \E v \in Convertibles(platform) : Built("new", v, new(v))

(* item.add_format(item) *)
AddFormat ==
    /\ Idle
    /\ Len(item) < MaxFormats
    /\ \E v \in Convertibles(platform) :
          Built("add_format", v, add_format(item, v))

(* ClipboardItem::from(vec) *)
From ==
    /\ Idle
    /\ \E src \in ClipboardItems(platform) : Built("from", src, from(src))

Next ==
    \/ SetClipboardContents
    \/ CustomValue
    \/ GetClipboardContents
    \/ StringValue
    \/ IterSupported
    \/ ClipboardChanged
    \/ Return

Spec == Init /\ [][Next]_vars

SpecAny == InitAny /\ [][Next]_vars

(* The application before it has an item: nothing but building one is     *)
(* looked at.                                                              *)
InitBuild ==
    /\ platform \in Platforms
    /\ item = <<>>
    /\ cb \in InitialClipboards(platform)
    /\ op = "none"
    /\ args = NoArgs
    /\ calls = <<>>
    /\ ret = Unit
    /\ intact = FALSE
    /\ identifiers = "uti"

NextBuild ==
    \/ New
    \/ AddFormat
    \/ From
    \/ Return

SpecBuild == InitBuild /\ [][NextBuild]_vars

-----------------------------------------------------------------------------
(* Properties.                                                             *)

(* What the last call was given. *)
Reader == args.reader

(* The system answered a read without failing anywhere, and with a block   *)
(* of the size that was written.                                           *)
ReadWentThrough ==
    args.regOk /\ args.openOk /\ args.handle = "valid" /\ args.slack = <<>>

(* C1: iter_supported() yields exactly the platform-supported formats of   *)
(* the item (every Text; a Custom iff its write_options() is not none;     *)
(* never __NotExhaustive), each once, in the item's order.                 *)
SupportedPositions ==
    {i \in 1..Len(item) :
        \/ item[i].kind = "Text"
        \/ /\ item[i].kind = "Custom"
           /\ write_options(platform, item[i].info).kind = "some"}

NthSupported(k) ==
    CHOOSE i \in SupportedPositions :
        Cardinality({j \in SupportedPositions : j < i}) = k - 1

C1_IterSupportedExact ==
    op = "iter_supported" =>
        /\ Len(ret.val) = Cardinality(SupportedPositions)
        /\ \A k \in 1..Len(ret.val) : ret.val[k] = item[NthSupported(k)]

C1_Witness ==
    /\ op = "iter_supported"
    /\ Len(item) = 2
    /\ item[1].kind = "Custom"
    /\ item[2].kind = "Text"
    /\ Len(ret.val) = 1

(* C2: after a successful set_clipboard_contents(ClipboardItem::new(s))    *)
(* and no clipboard change since, the text reads (get_clipboard_contents,  *)
(* string_value) yield s.                                                  *)
C2_TextRoundTrip ==
    (intact /\ Len(item) = 1 /\ item[1].kind = "Text" /\ ReadWentThrough) =>
        /\ op = "get" => ret = Some(<<Text(item[1].text)>>)
        /\ op = "string_value" => ret = Some(item[1].text)

(* The positions of the item holding a Custom format of the reader's       *)
(* descriptor that the platform supports.                                  *)
HeldFor(reader) ==
    {i \in 1..Len(item) :
        /\ item[i].kind = "Custom"
        /\ item[i].info = reader.desc
        /\ write_options(platform, reader.desc).kind = "some"}

(* No later format of the item goes under the native identifier of the     *)
(* format at position i.                                                   *)
LastUnderItsIdentifier(i) ==
    \A j \in (i + 1)..Len(item) :
        ~ /\ item[j].kind = "Custom"
          /\ write_options(platform, item[j].info).kind = "some"
          /\ write_options(platform, item[j].info).val.identifier
               = write_options(platform, item[i].info).val.identifier

OpaqueKind(d) ==
    platform = "windows" \/ write_options(platform, d).val.data_type = "Data"

ChangingCalls ==
    WriteCalls \cup {"EmptyClipboard", "clearContents", "declareTypes"}

(* C4: a set_clipboard_contents whose acquisition fails issues no clear,   *)
(* declare or write call and leaves the clipboard exactly as it was.       *)
C4_FailedAcquireKeeps ==
    [][(op' = "set" /\ ~args'.openOk) =>
          /\ cb' = cb
          /\ \A k \in 1..Len(calls') : calls'[k].fn \notin ChangingCalls]_vars

C4_Witness ==
    /\ op = "set"
    /\ ~args.openOk
    /\ intact
    /\ cb # <<>>

(* C5: in set_clipboard_contents, custom_value and get_clipboard_contents  *)
(* every successful acquisition is followed by exactly one release before  *)
(* the operation returns, and nothing is released that was not acquired.   *)
Acquired == {k \in 1..Len(calls) : calls[k].fn = "OpenClipboard" /\ calls[k].ok}

Released == {k \in 1..Len(calls) : calls[k].fn = "CloseClipboard"}

C5_ScopedAccess ==
    (op \in {"set", "custom_value", "get"} /\ ret.kind # "crash") =>
        /\ Cardinality(Acquired) = Cardinality(Released)
        /\ Cardinality(Acquired) <= 1
        /\ \A r \in Released : \E a \in Acquired : a < r
        /\ \A r \in Released :
              \A k \in 1..Len(calls) :
                 (k > r) => calls[k].fn = "parse"

C5_Witness ==
    /\ op = "set"
    /\ args.regFail # {}
    /\ Acquired # {}
    /\ Released # {}

(* C6: in a write, a format that fails (registration, serialization, the   *)
(* native write) is skipped alone: every supported format is still         *)
(* attempted, and written unless it is itself the one that fails.          *)
Attempted(i) == \E k \in 1..Len(calls) : calls[k].i = i

FailsItself(i) ==
    \E k \in 1..Len(calls) : calls[k].i = i /\ ~calls[k].ok

C6_FailureSkipsOneFormat ==
    (op = "set" /\ args.openOk /\ ret.kind = "unit") =>
        \A i \in SupportedPositions :
            /\ Attempted(i)
            /\ FailsItself(i) \/ Written(calls, i)

(* C7: a descriptor without options causes no native call: custom_value    *)
(* returns none without touching the system, set_clipboard_contents issues *)
(* no declaration, registration or write for such a Custom format, and an  *)
(* item of such formats alone leads to no native write at all.             *)
Optionless == {i \in 1..Len(item) :
                  /\ item[i].kind = "Custom"
                  /\ write_options(platform, item[i].info).kind # "some"}

Declarations == {k \in 1..Len(calls) : calls[k].fn = "declareTypes"}

C7_NoOptionsNoNativeCall ==
    /\ (op = "custom_value" /\ read_options(platform, Reader.desc).kind # "some")
          => (ret = None /\ calls = <<>>)
    /\ op = "set" =>
          /\ \A i \in Optionless : ~Attempted(i)
          /\ \A k \in Declarations :
                Len(calls[k].arg) = Cardinality(SupportedPositions)
          /\ (Optionless = 1..Len(item)) =>
                \A k \in 1..Len(calls) : calls[k].fn \notin WriteCalls

C7_Witness ==
    /\ op = "custom_value"
    /\ read_options(platform, Reader.desc).kind # "some"
    /\ cb # <<>>
    /\ ret = None

(* C8: set_clipboard_contents is idempotent: after a set, setting the same *)
(* item again (the system answering alike) leaves the clipboard, and so    *)
(* every read-back, as the first set left it.                              *)
SetAgain ==
    IF platform = "windows"
    THEN win_set_clipboard_contents(cb, item, args.openOk, args.regFail,
                                    args.writeFail)
    ELSE mac_set_clipboard_contents(cb, item, args.writeFail, args.declareOk)

C8_SetIdempotent ==
    (op = "set" /\ ret.kind # "crash") => SetAgain.cb = cb

C8_Witness ==
    /\ op = "set"
    /\ args.openOk
    /\ Len(cb) = 2
    /\ intact

TextId == IF platform = "windows" THEN CF_UNICODETEXT ELSE NSPasteboardTypeString

(* The clipboard holds something, but neither text nor the reader's native *)
(* format.                                                                 *)
Unrelated(c, reader) ==
    /\ c # <<>>
    /\ ~HasSlot(c, TextId)
    /\ ~(platform = "windows" /\ WinHolds(c, reader))
    /\ ~(platform = "mac" /\ MacHolds(c, reader))

(* C9: with only a native format on the clipboard that is neither the      *)
(* reader's nor text, custom_value and string_value return none and the    *)
(* clipboard stays as it was.                                              *)
C9_UnrelatedFormatReadsNone ==
    [][/\ (op' = "custom_value" /\ Unrelated(cb, args'.reader))
             => (ret' = None /\ cb' = cb)
       /\ (op' = "string_value" /\ cb # <<>> /\ ~HasSlot(cb, TextId))
             => (ret' = None /\ cb' = cb)]_vars

C9_Witness ==
    /\ op = "custom_value"
    /\ read_options(platform, Reader.desc).kind = "some"
    /\ args.regOk /\ args.openOk
    /\ Unrelated(cb, Reader)
    /\ ret = None

(* The text a text slot of the clipboard holds. *)
TextOn(c) ==
    IF platform = "windows"
    THEN from_wide(SlotOf(c, CF_UNICODETEXT).v)
    ELSE Some(from_nsstring(SlotOf(c, NSPasteboardTypeString).v))

HasText(c) ==
    IF platform = "windows"
    THEN HasSlot(c, CF_UNICODETEXT)
    ELSE /\ HasSlot(c, NSPasteboardTypeString)
         /\ SlotOf(c, NSPasteboardTypeString).tag = "string"

(* C10: get_clipboard_contents returns the text of a string-typed format   *)
(* that is present with valid text, whatever non-string formats come       *)
(* before it in the enumeration.                                           *)
C10_TextReadFindsText ==
    (op = "get" /\ ReadWentThrough /\ HasText(cb) /\ TextOn(cb).kind = "some") =>
        ret = Some(<<Text(TextOn(cb).val)>>)

(* C11: no adapter operation crashes: for every item, every reader and     *)
(* identifier the public types allow, and every failure of the system      *)
(* (open, registration, serialization, NULL data handle), the operation    *)
(* returns normally.                                                       *)
C11_NeverCrashes == ret.kind # "crash"

(* The places in the trace of a write. *)
Clears ==
    {k \in 1..Len(calls) : calls[k].fn \in {"EmptyClipboard", "clearContents"}}

Writes == {k \in 1..Len(calls) : calls[k].fn \in WriteCalls}

NativeType(fmt) ==
    IF platform = "windows"
    THEN IF fmt.kind = "Text" THEN CF_UNICODETEXT
         ELSE RegisterClipboardFormatA(
                  write_options("windows", fmt.info).val.identifier)
    ELSE IF fmt.kind = "Text" THEN NSPasteboardTypeString
         ELSE write_options("mac", fmt.info).val.identifier.id

NativeTypes ==
    [k \in 1..Cardinality(SupportedPositions) |->
        NativeType(item[NthSupported(k)])]

(* C13 as stated: before any bytes are supplied, a write declares the full *)
(* ordered list of native types of the formats iter_supported() yields,    *)
(* and every format later written was declared.                            *)
C13_DeclaresBeforeWriting ==
    (op = "set" /\ args.openOk /\ ret.kind # "crash"
        /\ SupportedPositions # {}) =>
        \E d \in Declarations :
            /\ calls[d].arg = NativeTypes
            /\ \A w \in Writes :
                  /\ d < w
                  /\ \E k \in 1..Len(calls[d].arg) :
                         calls[d].arg[k] = calls[w].arg[1]

(* C13, amended: on macOS the write hands declareTypes:owner: the list     *)
(* make_types_array built, one entry per format of iter_supported() in     *)
(* order, before any bytes are supplied, and writes no format that is not  *)
(* in that list; on Windows no declaration is made.                        *)
C13_MacDeclaresBeforeWriting ==
    op = "set" =>
        /\ platform = "windows" => Declarations = {}
        /\ platform = "mac" =>
              /\ Cardinality(Declarations) = 1
              /\ \A d \in Declarations :
                    /\ calls[d].arg = NativeTypes
                    /\ \A w \in Writes :
                          /\ d < w
                          /\ \E k \in 1..Len(calls[d].arg) :
                                 calls[d].arg[k] = calls[w].arg[1]

C13_Witness ==
    /\ op = "set"
    /\ platform = "mac"
    /\ Cardinality(Writes) = 2
    /\ \E d \in Declarations :
          Len(calls[d].arg) = 2 /\ calls[d].arg[1] # calls[d].arg[2]

(* The steps of a typed read, in the trace. *)
Resolutions ==
    {k \in 1..Len(calls) :
        calls[k].fn \in {"CString::new", "RegisterClipboardFormatA"}}

Acquisitions == {k \in 1..Len(calls) : calls[k].fn = "OpenClipboard"}

(* C14: in a typed read the native identifier is resolved before the       *)
(* clipboard is acquired; a failed registration returns none without an    *)
(* acquisition, a failed acquisition returns none without any presence     *)
(* check, read or parse.                                                   *)
C14_TypedReadFailsInOrder ==
    op = "custom_value" =>
        /\ \A r \in Resolutions : \A a \in Acquisitions : r < a
        /\ \A r \in Resolutions :
              ~calls[r].ok => (ret = None /\ Acquisitions = {})
        /\ \A a \in Acquisitions :
              ~calls[a].ok => (ret = None /\ a = Len(calls))
        /\ Acquisitions # {} => \E r \in Resolutions : calls[r].ok

C14_Witness ==
    /\ op = "custom_value"
    /\ ~args.openOk
    /\ Resolutions # {}
    /\ Acquisitions # {}
    /\ ret = None

(* More places in the trace of a typed read. *)
Copies == {k \in 1..Len(calls) : calls[k].fn \in {"copy", "from_nsdata"}}

Unlocks == {k \in 1..Len(calls) : calls[k].fn = "GlobalUnlock"}

Parses == {k \in 1..Len(calls) : calls[k].fn = "parse"}

Sizes == {k \in 1..Len(calls) : calls[k].fn = "GlobalSize"}

(* C15: in a typed read of a present format the bytes are copied into an   *)
(* owned buffer before the native memory is unlocked and before the        *)
(* clipboard is released, and parse runs only after the release.           *)
C15_CopyBeforeRelease ==
    op = "custom_value" =>
        \A p \in Parses :
            /\ \E k \in Copies : k < p
            /\ \A k \in Copies :
                  /\ \A u \in Unlocks : k < u
                  /\ \A r \in Released : k < r
            /\ \A u \in Unlocks : u < p
            /\ \A r \in Released : r < p
            /\ platform = "windows" => (Unlocks # {} /\ Released # {})

C15_Witness ==
    /\ op = "custom_value"
    /\ platform = "windows"
    /\ args.handle = "valid"
    /\ Parses # {}
    /\ ret.kind = "some"

(* The native format a Windows reader asks for. *)
FormatOf(reader) ==
    RegisterClipboardFormatA(read_options("windows", reader.desc).val.identifier)

(* C16: the buffer handed to parse has exactly the byte length the system  *)
(* reports for the slot and holds exactly the slot's bytes, in order.      *)
C16_BufferIsTheSlot ==
    op = "custom_value" =>
        \A p \in Parses :
            IF platform = "windows"
            THEN /\ Sizes # {}
                 /\ \A g \in Sizes : Len(calls[p].arg) = calls[g].arg[1]
                 /\ args.handle = "valid" =>
                       calls[p].arg
                         = GlobalBytes(SlotOf(cb, FormatOf(Reader)), args.slack)
            ELSE LET held == dataForType(
                                 cb,
                                 read_options("mac", Reader.desc).val.identifier.id,
                                 args.plistFormat)
                 IN held.kind = "some" /\ calls[p].arg = held.val

C16_Witness ==
    /\ op = "custom_value"
    /\ platform = "windows"
    /\ args.handle = "valid"
    /\ args.slack # <<>>
    /\ \E p \in Parses : Len(calls[p].arg) = 3

(* The formats of the item whose serialization fails: on macOS the Custom  *)
(* formats written as a binary property list whose bytes are none.         *)
SerializationFails ==
    {i \in SupportedPositions :
        /\ platform = "mac"
        /\ item[i].kind = "Custom"
        /\ write_options("mac", item[i].info).val.data_type = "BinaryPlist"
        /\ propertyListWithData(item[i].data).kind # "some"}

SlotsUnder(i) ==
    {k \in 1..Len(cb) :
        cb[k].id = write_options("mac", item[i].info).val.identifier.id}

(* C17: a format whose serialization fails gets no native write, and what  *)
(* the clipboard holds under its identifier after the write is either no   *)
(* value at all or the value another format of the item was written with.  *)
C17_FailedSerializationWritesNothing ==
    op = "set" =>
        \A i \in SerializationFails :
            /\ \A k \in Writes : calls[k].i # i
            /\ \A k \in SlotsUnder(i) :
                  \/ cb[k].tag = "nil"
                  \/ \E j \in SupportedPositions \ SerializationFails :
                        /\ j # i
                        /\ Written(calls, j)
                        /\ item[j].kind = "Custom"
                        /\ item[j].info = item[i].info
                        /\ cb[k].tag = "plist"
                        /\ cb[k].v = propertyListWithData(item[j].data).val

C17_Witness ==
    /\ op = "set"
    /\ ret = Unit
    /\ \E i \in SerializationFails :
          /\ \E k \in 1..Len(calls) :
                /\ calls[k].fn = "make_nsobj_for_format"
                /\ calls[k].i = i
                /\ ~calls[k].ok
          /\ \E j \in SupportedPositions : j < i /\ Written(calls, j)
          /\ SlotsUnder(i) # {}

(* Every successful acquisition among the calls is followed by a release.  *)
ReleasedIn(cs) ==
    \A a \in 1..Len(cs) :
        (cs[a].fn = "OpenClipboard" /\ cs[a].ok) =>
            \E r \in (a + 1)..Len(cs) : cs[r].fn = "CloseClipboard"

(* The system said the reader's format is there, and for macOS gave its    *)
(* data, and the clipboard does hold a slot of it.                         *)
FoundPresent(p, c, cs, reader) ==
    IF p = "windows"
    THEN /\ WinHolds(c, reader)
         /\ \E k \in 1..Len(cs) :
               cs[k].fn = "IsClipboardFormatAvailable" /\ cs[k].ok
    ELSE /\ MacHolds(c, reader)
         /\ \E k \in 1..Len(cs) : cs[k].fn = "containsObject" /\ cs[k].ok
         /\ \E k \in 1..Len(cs) : cs[k].fn = "dataForType" /\ cs[k].ok

ParsedIn(cs) == {k \in 1..Len(cs) : cs[k].fn = "parse"}

(* C18: a custom_value leaves the contents of the clipboard as they were;  *)
(* when the reader's parse returns none for the copied bytes the call      *)
(* returns none with the clipboard released; and a call returns a value    *)
(* only when the format was found present and parse returned that value    *)
(* for the copied bytes.                                                   *)
C18_ParseFailureIsAbsence ==
    [][op' = "custom_value" =>
          /\ cb' = cb
          /\ \A k \in ParsedIn(calls') :
                parse(args'.reader.parse, calls'[k].arg) = None =>
                    ret' = None /\ ReleasedIn(calls')
          /\ ret'.kind = "some" =>
                /\ FoundPresent(platform, cb, calls', args'.reader)
                /\ \E k \in ParsedIn(calls') :
                      parse(args'.reader.parse, calls'[k].arg) = ret']_vars

C18_Witness ==
    /\ op = "custom_value"
    /\ ret = None
    /\ \E k \in ParsedIn(calls) : parse(Reader.parse, calls[k].arg) = None
    /\ platform = "windows" =>
          \E k \in 1..Len(calls) : calls[k].fn = "CloseClipboard"

(* C19: an operation asks for the clipboard at most once; when the request *)
(* fails (another process holds the clipboard) the operation makes no      *)
(* further call of the system, changes nothing and returns: a write as a   *)
(* no-op, a read with none.                                                *)
C19_AcquiresAtMostOnce ==
    [][op' # "none" =>
          /\ Cardinality({k \in 1..Len(calls') :
                             calls'[k].fn = "OpenClipboard"}) <= 1
          /\ \A k \in 1..Len(calls') :
                (calls'[k].fn = "OpenClipboard" /\ ~calls'[k].ok) =>
                    /\ k = Len(calls')
                    /\ cb' = cb
                    /\ ret' = IF op' = "set" THEN Unit ELSE None]_vars

C19_Witness ==
    /\ op \in {"set", "get", "custom_value"}
    /\ ~args.openOk
    /\ Acquisitions # {}
    /\ Acquired = {}
    /\ ret \in {Unit, None}

(* C20: iter_supported leaves the item's format list as it was, and what   *)
(* it yields is what a further call on the item yields: the supported      *)
(* formats of the unchanged item, in order.                                *)
C20_IterSupportedIsPure ==
    [][op' = "iter_supported" =>
          /\ item' = item
          /\ ret' = Some(iter_supported(platform, item'))]_vars

C20_Witness ==
    /\ op = "iter_supported"
    /\ ret.kind = "some"
    /\ Len(ret.val) >= 1
    /\ Len(ret.val) < Len(item)

(* The format a value converts into: text for a string, a Custom format of *)
(* the pair's bytes and descriptor for a pair, a format for itself.        *)
FormatFrom(v) ==
    IF v.kind \in {"String", "str"} THEN [kind |-> "Text", text |-> v.s]
    ELSE IF v.kind = "pair"
    THEN [kind |-> "Custom", data |-> v.data, info |-> v.info]
    ELSE v

(* C21: construction returns an item, never a failure: new(v) the item of  *)
(* the one format converted from v; add_format(v) the previous list,       *)
(* unchanged and in order, with the format of v last; an item made from a  *)
(* list exactly that list.                                                 *)
C21_ConstructionKeepsOrder ==
    [][/\ op' \in {"new", "add_format", "from"} => ret' = Some(item')
       /\ op' = "new" => item' = <<FormatFrom(args'.value)>>
       /\ op' = "add_format" =>
             /\ Len(item') = Len(item) + 1
             /\ \A k \in 1..Len(item) : item'[k] = item[k]
             /\ item'[Len(item')] = FormatFrom(args'.value)
       /\ op' = "from" => item' = args'.value]_vars

C21_Witness ==
    /\ op = "add_format"
    /\ Len(item) = 2
    /\ item[1] # item[2]
    /\ item[2] = FormatFrom(args.value)
    /\ args.value.kind = "pair"

(* C22: every Custom format a write reaches, in its loop or in the         *)
(* declaration of types, has write options, so no unwrap of them fails:    *)
(* each call made for a format of the item is for a format with options,   *)
(* and a write ends without returning only where declareTypes: traps.      *)
C22_UnwrapNeverFails ==
    op = "set" =>
        /\ \A k \in 1..Len(calls) :
              (calls[k].i # 0 /\ item[calls[k].i].kind = "Custom") =>
                  write_options(platform, item[calls[k].i].info).kind = "some"
        /\ ret.kind = "crash" =>
              /\ calls # <<>>
              /\ calls[Len(calls)].fn = "declareTypes"
              /\ ~calls[Len(calls)].ok

C22_Witness ==
    /\ op = "set"
    /\ ret = Unit
    /\ Optionless # {}
    /\ \E i \in 1..Len(item) : item[i].kind = "Custom" /\ Written(calls, i)

(* The native format is offered or held because of a call of this          *)
(* operation made after the clipboard was cleared.                         *)
PutBy(cs, id) ==
    \E c \in 1..Len(cs) :
        /\ cs[c].fn \in {"EmptyClipboard", "clearContents"}
        /\ \E k \in (c + 1)..Len(cs) :
              /\ cs[k].ok
              /\ \/ cs[k].fn \in WriteCalls /\ cs[k].arg = <<id>>
                 \/ /\ cs[k].fn = "declareTypes"
                    /\ \E n \in 1..Len(cs[k].arg) : cs[k].arg[n] = id

(* C23: a write that gets the clipboard clears it: the clear call is made, *)
(* every native format on the clipboard afterwards was put there by this   *)
(* write, what the clipboard holds does not depend on what it held before, *)
(* and an item without a supported format leaves it empty.                 *)
C23_WriteClearsPrior ==
    [][(op' = "set" /\ args'.openOk) =>
          /\ \E c \in 1..Len(calls') :
                calls'[c].fn \in {"EmptyClipboard", "clearContents"}
          /\ \A k \in 1..Len(cb') : PutBy(calls', cb'[k].id)
          /\ \A prior \in InitialClipboards(platform) \cup {<<>>} :
                cb' = (IF platform = "windows"
                       THEN win_set_clipboard_contents(
                                prior, item, TRUE, args'.regFail,
                                args'.writeFail)
                       ELSE mac_set_clipboard_contents(
                                prior, item, args'.writeFail,
                                args'.declareOk)).cb
          /\ SupportedPositions = {} => cb' = <<>>]_vars

C23_Witness ==
    /\ op = "set"
    /\ args.openOk
    /\ Clears # {}
    /\ item # <<>>
    /\ SupportedPositions = {}
    /\ cb = <<>>

ReadOps == {"custom_value", "string_value", "get"}

(* C24: a read (custom_value, string_value, get_clipboard_contents) makes  *)
(* no clear, declare or write call and leaves the native formats on the    *)
(* clipboard and their bytes as they were, whatever the read comes to.     *)
C24_ReadsChangeNothing ==
    [][op' \in ReadOps =>
          /\ cb' = cb
          /\ \A k \in 1..Len(calls') : calls'[k].fn \notin ChangingCalls]_vars

C24_Witness ==
    /\ op \in ReadOps
    /\ ret.kind = "some"
    /\ Len(cb) = 2
    /\ calls # <<>>

MemoryCalls == {"GlobalSize", "GlobalLock", "copy", "from_nsdata"}

GaveData(cs, k) ==
    \E g \in 1..(k - 1) :
        cs[g].fn \in {"GetClipboardData", "dataForType"} /\ cs[g].ok

(* C25: a read sizes, locks and copies native clipboard memory only after  *)
(* the system returned a non-null data handle for the format, and a null   *)
(* handle makes the read return none without a lock or a copy.             *)
C25_NullHandleReadsNothing ==
    op \in ReadOps =>
        /\ \A k \in 1..Len(calls) :
              calls[k].fn \in MemoryCalls => GaveData(calls, k)
        /\ \A g \in 1..Len(calls) :
              (calls[g].fn \in {"GetClipboardData", "dataForType"}
               /\ ~calls[g].ok) => ret = None

====
